---- MODULE Spec2Model ----
(***************************************************************************)
(* A model of extended::map<A, B> (src/extended.h): a std::map<A, B> with  *)
(* a default_value, a read-only pull (operator>>), two eliding inserts     *)
(* (operator() and operator<<) and a bulk prune (operator!).               *)
(*                                                                         *)
(* The std::map base object is modelled as the sequence of its entries in  *)
(* iteration (key) order, each entry a std::pair [first, second].  An      *)
(* iterator is its distance from begin(): 0 is begin(), Len(entries) is    *)
(* end().  A is instantiated with int, B with int.  A call that runs into  *)
(* undefined behaviour either ends the process or returns with one of the  *)
(* maps in UndefinedOutcomes.                                              *)
(***************************************************************************)
EXTENDS Integers, Sequences, FiniteSets

\* Largest key and largest value the model draws inputs from.
MaxKey == 2
MaxVal == 1

\* Keys include a negative one: std::advance(it, input.first) with a
\* negative distance walks backwards from begin().
Keys == -1 .. MaxKey
Values == 0 .. MaxVal

\* null<B>::value for an arithmetic B: (B)NULL.  It is also the value a
\* std::map::operator[] gives a freshly inserted arithmetic element, B().
NullB == 0

VARIABLES
    entries,        \* the std::map base object: entries in key order
    default_value,  \* the protected member default_value
    pc,             \* "idle": between calls; "prune": inside operator!'s loop;
                    \* "crashed": the process died on undefined behaviour
    it,             \* operator!'s iterator, as its distance from cbegin()
    temp,           \* operator!'s local temp
    pre,            \* the entries when the running/last operator! was entered
    last            \* the call made last: its operator, arguments and result;
                    \* for operator! also the entries its loop has examined

\* A map<A, std::string> (the specialization) given the same calls as a
\* map<A, B> with B a string type, or [pc |-> "none"] when there is none.
VARIABLE str

vars == <<entries, default_value, pc, it, temp, pre, last, str>>

-----------------------------------------------------------------------------
(* std::map<A, B> as a sorted sequence of pairs *)

Pair(k, v) == [first |-> k, second |-> v]

\* The keys of a map, and the view of a map as a function from its keys.
KeysOf(e) == {e[i].first : i \in DOMAIN e}
Present(e, k) == k \in KeysOf(e)
Stored(e, k) == e[CHOOSE i \in DOMAIN e : e[i].first = k].second
AsFunction(e) == [k \in KeysOf(e) |-> Stored(e, k)]

\* std::map::count
count(e, k) == Cardinality({i \in DOMAIN e : e[i].first = k})

\* The distance from begin() of the first entry whose key is not less than
\* k (std::map::lower_bound); Len(e) when there is none.
lower_bound(e, k) == Cardinality({i \in DOMAIN e : e[i].first < k})

\* std::map::operator[]: the map after the subscript, which inserts a
\* value-initialised element at its place in key order when k is absent.
Subscript(e, k) ==
    IF count(e, k) > 0 THEN e
    ELSE LET n == lower_bound(e, k)
         IN  SubSeq(e, 1, n) \o <<Pair(k, NullB)>> \o SubSeq(e, n + 1, Len(e))

\* (*this).operator[](k) = v
SubscriptAssign(e, k, v) ==
    LET s == Subscript(e, k)
        n == lower_bound(s, k)
    IN  [s EXCEPT ![n + 1] = Pair(k, v)]

\* An erase that removes the element after the one pointed to.
eraseNext(e, n) == SubSeq(e, 1, n + 1) \o SubSeq(e, n + 3, Len(e))

\* std::map::erase(iterator) for an iterator at distance n from begin()
\* that points to an element (0 <= n < size).
erase(e, n) == SubSeq(e, 1, n) \o SubSeq(e, n + 2, Len(e))

\* The sorted sequence holding the entries of function f (the std::map
\* constructor called with a range of pairs).
RECURSIVE FromFunction(_)
FromFunction(f) ==
    IF DOMAIN f = {} THEN <<>>
    ELSE LET k == CHOOSE x \in DOMAIN f : \A y \in DOMAIN f : x <= y
         IN  <<Pair(k, f[k])>> \o FromFunction([y \in DOMAIN f \ {k} |-> f[y]])

\* Every std::map<A, B> over the model's keys and values.
AllMaps == {FromFunction(f) : f \in UNION {[S -> Values] : S \in SUBSET Keys}}

-----------------------------------------------------------------------------
(* Construction *)

\* The object a constructor call leaves: default_value d, base map e.
Constructed(call, d, e) ==
    /\ default_value = d
    /\ entries = e
    /\ pc = "idle"
    /\ it = 0
    /\ temp = 0
    /\ pre = <<>>
    /\ last = call

\* map(): the member initialiser leaves default_value = null<B>::value.
CtorDefault == Constructed([op |-> "new", ctor |-> "map()"], NullB, <<>>)

\* map(B) with the assignment of default_val left out.
CtorDefaultValKeepsNull ==
    \E default_val \in Values :
        Constructed([op |-> "new", ctor |-> "map(B)", default_val |-> default_val],
                    NullB, <<>>)

\* map(B default_val)
CtorDefaultVal ==
    \E default_val \in Values :
        Constructed([op |-> "new", ctor |-> "map(B)", default_val |-> default_val],
                    default_val, <<>>)

\* map(B default_val, Args... args): the base map is built from args.
CtorForward ==
    \E default_val \in Values : \E args \in AllMaps :
        Constructed([op |-> "new", ctor |-> "map(B, Args...)",
                     default_val |-> default_val],
                    default_val, args)

\* No map<A, std::string> is built next to the map<A, B>.
NoSpecialization == str = [pc |-> "none"]

Init == (CtorDefault \/ CtorDefaultVal \/ CtorForward) /\ NoSpecialization

-----------------------------------------------------------------------------
(* operator>> : pull *)

\* operator>> without its count() guard: the subscript alone, which inserts
\* a value-initialised element for an absent key and returns it.
PullNoCountGuard(e, d, input) ==
    [ret |-> Stored(Subscript(e, input), input), map |-> Subscript(e, input)]

\* The value returned and the map left behind by operator>>(input).
OperatorPull(e, d, input) ==
    IF count(e, input) > 0
    THEN [ret |-> Stored(Subscript(e, input), input), map |-> Subscript(e, input)]
    ELSE [ret |-> d, map |-> e]

Pull(input) ==
    /\ pc = "idle"
    /\ LET r == OperatorPull(entries, default_value, input)
       IN  /\ entries' = r.map
           /\ last' = [op |-> "pull", first |-> input, ret |-> r.ret]
    /\ pre' = <<>>
    /\ UNCHANGED <<default_value, pc, it, temp>>

-----------------------------------------------------------------------------
(* operator() : insert-if-relevant *)

\* operator() with the count() disjunct dropped from its condition.
CallIgnoresCount(e, d, input) ==
    IF input.second # d
    THEN SubscriptAssign(e, input.first, input.second)
    ELSE e

\* operator() with its condition dropped altogether.
CallAlwaysWrites(e, d, input) ==
    SubscriptAssign(e, input.first, input.second)

\* The map left behind by operator()(input).
OperatorCall(e, d, input) ==
    IF count(e, input.first) > 0 \/ input.second # d
    THEN SubscriptAssign(e, input.first, input.second)
    ELSE e

\* operator() with default_value assigned from the argument.
InsertIfRelevantSetsDefault(input) ==
    /\ pc = "idle"
    /\ entries' = OperatorCall(entries, default_value, input)
    /\ default_value' = input.second
    /\ last' = [op |-> "call", first |-> input.first, second |-> input.second]
    /\ pre' = <<>>
    /\ UNCHANGED <<pc, it, temp>>

InsertIfRelevant(input) ==
    /\ pc = "idle"
    /\ entries' = OperatorCall(entries, default_value, input)
    /\ last' = [op |-> "call", first |-> input.first, second |-> input.second]
    /\ pre' = <<>>
    /\ UNCHANGED <<default_value, pc, it, temp>>

-----------------------------------------------------------------------------
(* operator<< : insert-or-prune *)

\* std::advance(it, n) from begin() stays inside [begin(), end()].
AdvanceInRange(e, n) == 0 <= n /\ n <= Len(e)

\* The same with end() taken for a stored entry.
PointsToEntryOrEnd(e, n) == 0 <= n /\ n <= Len(e)

\* An iterator at distance n from begin() points to a stored entry.
PointsToEntry(e, n) == 0 <= n /\ n < Len(e)

\* What the build may leave of the map after the undefined advance or
\* erase of operator<< when execution goes on: the tree walk of
\* std::advance wraps around the header node, so the erase hits some
\* element, or the map is left as it was.
UndefinedOutcomes(e) == {e} \cup {erase(e, n) : n \in 0 .. Len(e) - 1}

\* The test of operator<< made against null<B>::value.
ShlWritesUnlessNull(d, input) == input.second # NullB

\* The three branches of operator<<.
ShlWrites(d, input) == input.second # d
ShlErases(e, d, input) == ~ShlWrites(d, input) /\ count(e, input.first) > 0

\* The write branch made an insert-if-absent (std::map::insert semantics).
ShlWriteOnlyFresh(e, input) ==
    IF count(e, input.first) > 0 THEN e
    ELSE SubscriptAssign(e, input.first, input.second)

\* (*this).operator[](input.first) = input.second
ShlWrite(e, input) == SubscriptAssign(e, input.first, input.second)

\* The record of a call of operator<<: its argument, the size() it found
\* and the undefined operation it ran into ("none" when it ran into none).
ShlCall(input, ub) ==
    [op |-> "shl", first |-> input.first, second |-> input.second, ub |-> ub,
     size |-> Len(entries)]

InsertOrPrune(input) ==
    /\ pc = "idle"
    /\ \/ /\ ShlWrites(default_value, input)
          /\ entries' = ShlWrite(entries, input)
          /\ last' = ShlCall(input, "none")
          /\ pc' = pc
       \/ /\ ShlErases(entries, default_value, input)
          /\ PointsToEntry(entries, input.first)
          /\ entries' = erase(entries, input.first)
          /\ last' = ShlCall(input, "none")
          /\ pc' = pc
       \/ /\ ShlErases(entries, default_value, input)
          /\ ~PointsToEntry(entries, input.first)
          /\ last' = ShlCall(input, IF AdvanceInRange(entries, input.first)
                                    THEN "erase_end" ELSE "advance")
          /\ \/ entries' \in UndefinedOutcomes(entries) /\ pc' = pc
             \/ entries' = entries /\ pc' = "crashed"
       \/ /\ ~ShlWrites(default_value, input)
          /\ ~ShlErases(entries, default_value, input)
          /\ entries' = entries
          /\ last' = ShlCall(input, "none")
          /\ pc' = pc
    /\ pre' = <<>>
    /\ UNCHANGED <<default_value, it, temp>>

-----------------------------------------------------------------------------
(* operator! : prune-all, one action per step of its loop *)

\* uint64_t temp = 0; auto it = cbegin();
PruneAllBegin ==
    /\ pc = "idle"
    /\ pc' = "prune"
    /\ temp' = 0
    /\ it' = 0
    /\ pre' = entries
    /\ last' = [op |-> "prune",
                twice |-> (last.op = "prune"),
                prev_erased |-> IF last.op = "prune" THEN last.erased ELSE 0,
                erased |-> 0,
                examined |-> <<>>]
    /\ UNCHANGED <<entries, default_value>>

\* The erase step walking to the rank after the erased one.
PruneAllEraseSkipsNext ==
    /\ pc = "prune"
    /\ it # Len(entries)
    /\ entries[it + 1].second = default_value
    /\ temp' = it
    /\ entries' = erase(entries, it)
    /\ it' = IF temp' + 1 <= Len(entries') THEN temp' + 1 ELSE Len(entries')
    /\ last' = [last EXCEPT !.erased = @ + 1,
                            !.examined = Append(@, entries[it + 1])]
    /\ UNCHANGED <<default_value, pc, pre>>

\* The erase step with the erase itself left out.
PruneAllEraseKeepsEntry ==
    /\ pc = "prune"
    /\ it # Len(entries)
    /\ entries[it + 1].second = default_value
    /\ temp' = it
    /\ it' = temp'
    /\ UNCHANGED <<entries, default_value, pc, pre, last>>

\* The erase step erasing at cbegin() instead of at it.
PruneAllEraseAtBegin ==
    /\ pc = "prune"
    /\ it # Len(entries)
    /\ entries[it + 1].second = default_value
    /\ temp' = it
    /\ entries' = erase(entries, 0)
    /\ it' = IF temp' <= Len(entries') THEN temp' ELSE Len(entries')
    /\ last' = [last EXCEPT !.erased = @ + 1,
                            !.examined = Append(@, entries[it + 1])]
    /\ UNCHANGED <<default_value, pc, pre>>

\* (*it).second == default_value: erase, then walk back to the same rank.
PruneAllErase ==
    /\ pc = "prune"
    /\ it # Len(entries)
    /\ entries[it + 1].second = default_value
    /\ temp' = it
    /\ entries' = erase(entries, it)
    /\ it' = temp'
    /\ last' = [last EXCEPT !.erased = @ + 1,
                            !.examined = Append(@, entries[it + 1])]
    /\ UNCHANGED <<default_value, pc, pre>>

\* else std::advance(it, 1)
PruneAllAdvance ==
    /\ pc = "prune"
    /\ it # Len(entries)
    /\ entries[it + 1].second # default_value
    /\ it' = it + 1
    /\ last' = [last EXCEPT !.examined = Append(@, entries[it + 1])]
    /\ UNCHANGED <<entries, default_value, pc, temp, pre>>

\* it == cend(): the loop and the call end, and the locals with them.
PruneAllEnd ==
    /\ pc = "prune"
    /\ it = Len(entries)
    /\ pc' = "idle"
    /\ it' = 0
    /\ temp' = 0
    /\ UNCHANGED <<entries, default_value, pre, last>>

-----------------------------------------------------------------------------
(* The inherited std::map interface: m[k] = v, which elides nothing *)

BaseAssign(k, v) ==
    /\ pc = "idle"
    /\ entries' = SubscriptAssign(entries, k, v)
    /\ last' = [op |-> "base"]
    /\ pre' = <<>>
    /\ UNCHANGED <<default_value, pc, it, temp>>

-----------------------------------------------------------------------------

Next ==
    \/ \E k \in Keys : Pull(k) /\ UNCHANGED str
    \/ \E k \in Keys, v \in Values :
          InsertIfRelevant(Pair(k, v)) /\ UNCHANGED str
    \/ \E k \in Keys, v \in Values :
          InsertOrPrune(Pair(k, v)) /\ UNCHANGED str
    \/ PruneAllBegin /\ UNCHANGED str
    \/ PruneAllErase /\ UNCHANGED str
    \/ PruneAllAdvance /\ UNCHANGED str
    \/ PruneAllEnd /\ UNCHANGED str
    \/ \E k \in Keys, v \in Values : BaseAssign(k, v) /\ UNCHANGED str

Spec == Init /\ [][Next]_vars

-----------------------------------------------------------------------------
(* Properties *)

\* The step is a call of the named operator (every call from "idle" records
\* itself in last; operator! records itself on entry).
PullStep == pc = "idle" /\ last'.op = "pull"
CallStep == pc = "idle" /\ last'.op = "call"
ShlStep == pc = "idle" /\ last'.op = "shl"

\* operator! has returned and nothing was called since.
PruneDone == pc = "idle" /\ last.op = "prune"

NotDefault(p) == p.second # default_value

\* The map e without the entry of key k.
Without(e, k) == [x \in KeysOf(e) \ {k} |-> Stored(e, x)]

\* C1: insert-or-prune called with (key, default_value) returns having
\* removed exactly key's own entry when key is present, and having changed
\* nothing when key is absent, for every key and every map.
C1_PruneRemovesOwnEntry ==
    [][ShlStep /\ last'.second = default_value
         => /\ pc' = "idle"
            /\ AsFunction(entries') = Without(entries, last'.first)]_vars

\* C2: no operation advances an iterator outside [begin, end] or erases a
\* position that is not a stored entry: operator<< never runs into its
\* undefined advance or erase, and operator!'s iterator stays in range.
C2_NoUnsafeIteratorUse ==
    /\ pc # "crashed"
    /\ last.op = "shl" => last.ub = "none"
    /\ pc = "prune" => AdvanceInRange(entries, it)

\* C3: operator>> returns the stored value of a present key and exactly
\* default_value for an absent key.
C3_PullReturnsStoredOrDefault ==
    [][PullStep
         => last'.ret = IF Present(entries, last'.first)
                        THEN Stored(entries, last'.first)
                        ELSE default_value]_vars

C3_Witness ==
    /\ last.op = "pull"
    /\ entries # <<>>
    /\ ~Present(entries, last.first)
    /\ default_value # NullB
    /\ last.ret = default_value

\* C4: operator>> leaves the stored entries and default_value as they were;
\* pulling an absent key does not insert it.
C4_PullNeverMutates ==
    [][PullStep => entries' = entries /\ default_value' = default_value]_vars

C4_Witness ==
    /\ last.op = "pull"
    /\ Len(entries) >= 2
    /\ ~Present(entries, last.first)

\* C5: operator()(key, value) makes key present with value exactly when key
\* was present or value differs from default_value, keeping the key count
\* when key was present; otherwise it leaves the map entirely unchanged.
C5_InsertIfRelevant ==
    [][CallStep
         => LET k == last'.first
                v == last'.second
            IN  IF Present(entries, k) \/ v # default_value
                THEN /\ Present(entries', k)
                     /\ Stored(entries', k) = v
                     /\ Present(entries, k) => Len(entries') = Len(entries)
                ELSE entries' = entries]_vars

C5_Witness ==
    /\ last.op = "call"
    /\ last.second = default_value
    /\ Present(entries, last.first)
    /\ Stored(entries, last.first) = default_value

\* C6: operator<<(key, value) with value different from default_value leaves
\* key present with value, whether key was absent or present before.
C6_InsertOrPruneStores ==
    [][ShlStep /\ last'.second # default_value
         => /\ pc' = "idle"
            /\ Present(entries', last'.first)
            /\ Stored(entries', last'.first) = last'.second]_vars

C6_Witness ==
    /\ last.op = "shl"
    /\ last.second # default_value
    /\ Len(entries) >= 2
    /\ Present(entries, last.first)
    /\ Stored(entries, last.first) = last.second

\* C7: when operator! returns, the entries are exactly the entries it was
\* entered with whose value differs from default_value, in the same order
\* and with the same values.
C7_PruneAllRemovesExactlyDefaults ==
    PruneDone => entries = SelectSeq(pre, NotDefault)

C7_Witness ==
    /\ PruneDone
    /\ last.erased >= 2
    /\ Len(entries) >= 2

\* C8: an operator! called right after an operator! returns with the
\* entries it was entered with: the second prune changes nothing.
C8_PruneAllIdempotent ==
    PruneDone /\ last.twice => entries = pre

C8_Witness ==
    /\ PruneDone
    /\ last.twice
    /\ last.prev_erased >= 1
    /\ entries # <<>>

\* C9: a key that operator() or operator<< made present (absent before the
\* call, present after it) holds a value different from default_value.
C9_NoFreshDefaultEntry ==
    [][CallStep \/ ShlStep
         => \A k \in Keys :
              ~Present(entries, k) /\ Present(entries', k)
                => Stored(entries', k) # default_value]_vars

C9_Witness ==
    /\ last.op = "call"
    /\ last.second = default_value
    /\ ~Present(entries, last.first)
    /\ entries # <<>>

\* C10: no step of any operator changes default_value.
C10_DefaultValueFixed == [][default_value' = default_value]_vars

C10_Witness ==
    /\ last.op = "call"
    /\ last.second # default_value
    /\ default_value # NullB
    /\ Stored(entries, last.first) = last.second

\* A single call made on a map that map() or map(B) has just built.
FirstInsertDone ==
    /\ pc = "idle"
    /\ last.op \in {"call", "shl"}
    /\ Len(entries) = 1
    /\ last.second # default_value
    /\ entries[1] = Pair(last.first, last.second)

\* C11: map() and map(B) build an empty map; a pull from the map just built
\* returns 0 after map() and the constructor's argument after map(B); and
\* once a single key has been given a value different from the default, a
\* pull returns that value for that key and default_value for the others.
C11_FreshMapPullsDefault ==
    /\ [](last.op = "new" /\ last.ctor # "map(B, Args...)" => entries = <<>>)
    /\ [][last.op = "new" /\ last.ctor = "map()" /\ PullStep
            => last'.ret = 0]_vars
    /\ [][last.op = "new" /\ last.ctor = "map(B)" /\ PullStep
            => last'.ret = last.default_val]_vars
    /\ [][FirstInsertDone /\ PullStep
            => last'.ret = IF last'.first = last.first
                           THEN last.second ELSE default_value]_vars

C11_Witness ==
    /\ last.op = "pull"
    /\ Len(entries) = 1
    /\ Present(entries, last.first)
    /\ default_value # NullB
    /\ last.ret = NullB

-----------------------------------------------------------------------------
(* map<A, std::string>: the specialization, run next to map<A, B> *)

\* Strings are sequences of character codes.
MaxStrLen == 1
MaxChar == 2
Chars == 1 .. MaxChar
Strings == UNION {[1 .. n -> Chars] : n \in 0 .. MaxStrLen}

\* null<std::string>::value: std::string().
NullStr == <<>>

\* std::string::compare: the sign of the first differing character, else of
\* the difference of the lengths.
RECURSIVE compare(_, _)
compare(a, b) ==
    IF a = <<>> \/ b = <<>>
    THEN IF Len(a) < Len(b) THEN -1 ELSE IF Len(a) > Len(b) THEN 1 ELSE 0
    ELSE IF Head(a) < Head(b) THEN -1
    ELSE IF Head(a) > Head(b) THEN 1
    ELSE compare(Tail(a), Tail(b))

\* std::map<A, std::string>::operator[] and the assignment through it.
StrSubscript(e, k) ==
    IF count(e, k) > 0 THEN e
    ELSE LET n == lower_bound(e, k)
         IN  SubSeq(e, 1, n) \o <<Pair(k, NullStr)>> \o SubSeq(e, n + 1, Len(e))

StrSubscriptAssign(e, k, v) ==
    LET s == StrSubscript(e, k)
        n == lower_bound(s, k)
    IN  [s EXCEPT ![n + 1] = Pair(k, v)]

AllStrMaps == {FromFunction(f) : f \in UNION {[S -> Strings] : S \in SUBSET Keys}}

\* map<A, std::string>::operator>>
StrOperatorPull(e, d, input) ==
    IF count(e, input) > 0
    THEN [ret |-> Stored(StrSubscript(e, input), input),
          map |-> StrSubscript(e, input)]
    ELSE [ret |-> d, map |-> e]

\* map<A, std::string>::operator()
StrOperatorCall(e, d, input) ==
    IF count(e, input.first) > 0 \/ input.second # d
    THEN StrSubscriptAssign(e, input.first, input.second)
    ELSE e

\* The branches of map<A, std::string>::operator<<.
StrShlWrites(d, input) == compare(input.second, d) # 0
StrShlErases(e, d, input) == ~StrShlWrites(d, input) /\ count(e, input.first) > 0

\* map<A, std::string>::operator!, from iterator distance n on: the loop
\* run to its end.
RECURSIVE StrPruneLoop(_, _, _)
StrPruneLoop(e, d, n) ==
    IF n = Len(e) THEN e
    ELSE IF compare(e[n + 1].second, d) = 0
         THEN StrPruneLoop(erase(e, n), d, n)
         ELSE StrPruneLoop(e, d, n + 1)

\* The specialization after a call that left it the map e.
StrAfter(e, ret, ub) ==
    [entries |-> e, default_value |-> str.default_value, pc |-> "idle",
     ret |-> ret, ub |-> ub]

StrPull(input) ==
    LET r == StrOperatorPull(str.entries, str.default_value, input)
    IN  str' = StrAfter(r.map, r.ret, "none")

StrInsertIfRelevant(input) ==
    str' = StrAfter(StrOperatorCall(str.entries, str.default_value, input),
                    NullStr, "none")

StrInsertOrPrune(input) ==
    LET e == str.entries
        d == str.default_value
    IN  \/ /\ StrShlWrites(d, input)
           /\ str' = StrAfter(StrSubscriptAssign(e, input.first, input.second),
                              NullStr, "none")
        \/ /\ StrShlErases(e, d, input)
           /\ PointsToEntry(e, input.first)
           /\ str' = StrAfter(erase(e, input.first), NullStr, "none")
        \/ /\ StrShlErases(e, d, input)
           /\ ~PointsToEntry(e, input.first)
           /\ \/ \E u \in UndefinedOutcomes(e) :
                   str' = StrAfter(u, NullStr, "undefined")
              \/ str' = [StrAfter(e, NullStr, "undefined") EXCEPT !.pc = "crashed"]
        \/ /\ ~StrShlWrites(d, input)
           /\ ~StrShlErases(e, d, input)
           /\ str' = StrAfter(e, NullStr, "none")

StrPruneAll ==
    str' = StrAfter(StrPruneLoop(str.entries, str.default_value, 0),
                    NullStr, "none")

\* The two maps hold the same entries and are both between calls.
SideBySide ==
    /\ pc = "idle"
    /\ str.pc = "idle"
    /\ str.entries = entries
    /\ str.default_value = default_value

\* Both maps built by the same constructor call with the same arguments.
InitStr ==
    \E d \in Strings : \E e \in AllStrMaps :
        /\ \/ d = NullStr /\ e = <<>>
                /\ Constructed([op |-> "new", ctor |-> "map()"], d, e)
           \/ e = <<>>
                /\ Constructed([op |-> "new", ctor |-> "map(B)",
                                default_val |-> d], d, e)
           \/ Constructed([op |-> "new", ctor |-> "map(B, Args...)",
                           default_val |-> d], d, e)
        /\ str = [entries |-> e, default_value |-> d, pc |-> "idle",
                  ret |-> NullStr, ub |-> "none"]

\* The same call made on both maps, as long as they have not come apart.
NextStr ==
    \/ \E k \in Keys : SideBySide /\ Pull(k) /\ StrPull(k)
    \/ \E k \in Keys, v \in Strings :
          SideBySide /\ InsertIfRelevant(Pair(k, v)) /\ StrInsertIfRelevant(Pair(k, v))
    \/ \E k \in Keys, v \in Strings :
          SideBySide /\ InsertOrPrune(Pair(k, v)) /\ StrInsertOrPrune(Pair(k, v))
    \/ SideBySide /\ PruneAllBegin /\ StrPruneAll
    \/ PruneAllErase /\ UNCHANGED str
    \/ PruneAllAdvance /\ UNCHANGED str
    \/ PruneAllEnd /\ UNCHANGED str

SpecStr == InitStr /\ [][NextStr]_vars

\* Neither map has run into an undefined advance or erase in its last call.
BothDefined ==
    /\ str.ub = "none"
    /\ last.op = "shl" => last.ub = "none"

\* Between calls the two maps hold the same entries and have returned the
\* same value from the last pull.
SameObservation ==
    /\ str.pc = pc
    /\ str.entries = entries
    /\ last.op = "pull" => str.ret = last.ret

AgreeWhileDefined == pc # "prune" /\ BothDefined => SameObservation

-----------------------------------------------------------------------------
(* null<A>: the type-driven null value *)

\* A type is a base type under ptr levels of '*', then possibly one '&'.
MaxPtrDepth == 3
Arithmetic == {"bool", "char", "int", "long", "double"}
Objects == {"std::string", "std::pair<int, int>"}
Types == [base : Arithmetic \cup Objects, ptr : 0 .. MaxPtrDepth, ref : BOOLEAN]

\* std::is_arithmetic<T>::value
is_arithmetic(T) == T.base \in Arithmetic /\ T.ptr = 0 /\ ~T.ref

IsPointer(T) == T.ptr > 0 /\ ~T.ref
IsObject(T) == T.base \in Objects /\ T.ptr = 0 /\ ~T.ref

\* The partial specialization chosen for null<T> and the type its
\* template parameter A is deduced to.
Specialization(T) ==
    IF is_arithmetic(T) THEN [class |-> "null<A, true>", A |-> T]
    ELSE IF T.ref THEN [class |-> "null<A&, false>", A |-> [T EXCEPT !.ref = FALSE]]
    ELSE IF T.ptr > 0
         THEN [class |-> "null<A*, false>", A |-> [T EXCEPT !.ptr = @ - 1]]
         ELSE [class |-> "null<A, false>", A |-> T]

\* What copy-initialising a const A from nullptr gives: a null pointer for
\* a pointer type; for std::string a call of its const char* constructor
\* with a null pointer, which is undefined; otherwise no conversion exists.
FromNullptr(A) ==
    IF A.ptr > 0 THEN "nullptr"
    ELSE IF A.base = "std::string" THEN "undefined"
    ELSE "ill-formed"

\* null<T>::value: every specialization declares "static const A value";
\* the definitions initialise it with (A)NULL, A() and nullptr.
NullValue(T) ==
    LET s == Specialization(T)
    IN  IF s.class = "null<A, true>" THEN [type |-> s.A, value |-> "zero"]
        ELSE IF s.class = "null<A, false>" THEN [type |-> s.A, value |-> "empty"]
        ELSE [type |-> s.A, value |-> FromNullptr(s.A)]

\* No map is involved: the map's variables stay as an empty map() has them.
InitNull ==
    /\ \E T \in Types : last = [op |-> "null", type |-> T, resolved |-> FALSE]
    /\ default_value = NullB
    /\ entries = <<>>
    /\ pc = "idle"
    /\ it = 0
    /\ temp = 0
    /\ pre = <<>>
    /\ NoSpecialization

\* The program names null<T>::value.
Resolve ==
    /\ last.op = "null"
    /\ ~last.resolved
    /\ last' = [op |-> "null", type |-> last.type, resolved |-> TRUE,
                result |-> NullValue(last.type)]
    /\ UNCHANGED <<entries, default_value, pc, it, temp, pre, str>>

NextNull == Resolve

SpecNull == InitNull /\ [][NextNull]_vars

\* C13: null<T>::value is zero, of type T, for an arithmetic T; the null
\* pointer, of type T itself, for a pointer T; and the default-constructed
\* (empty) value, of type T, for an object type T such as std::string.
C13_NullPerCategory ==
    last.op = "null" /\ last.resolved
      => LET T == last.type
             r == last.result
         IN  /\ is_arithmetic(T) => r = [type |-> T, value |-> "zero"]
             /\ IsPointer(T) => r = [type |-> T, value |-> "nullptr"]
             /\ IsObject(T) => r = [type |-> T, value |-> "empty"]

\* For arithmetic and object types the resolver does give the claimed value.
NullOfValueTypes ==
    last.op = "null" /\ last.resolved
      => LET T == last.type
             r == last.result
         IN  /\ is_arithmetic(T) => r = [type |-> T, value |-> "zero"]
             /\ IsObject(T) => r = [type |-> T, value |-> "empty"]

-----------------------------------------------------------------------------
(* A map used through operator<< and operator>> alone *)

NoDefaultStored(e) == \A i \in DOMAIN e : e[i].second # default_value

\* Any constructed map that holds no value equal to default_value.
InitShl == Init /\ NoDefaultStored(entries)

NextShl ==
    \/ \E k \in Keys : Pull(k) /\ UNCHANGED str
    \/ \E k \in Keys, v \in Values :
          InsertOrPrune(Pair(k, v)) /\ UNCHANGED str

SpecShl == InitShl /\ [][NextShl]_vars

\* C14: started without a stored value equal to default_value and used
\* through operator<< and operator>> alone, the map never stores one.
C14_ShlKeepsStoreFree == NoDefaultStored(entries)

C14_Witness ==
    /\ last.op = "shl"
    /\ last.ub = "none"
    /\ last.second = default_value
    /\ last.size = Len(entries) + 1
    /\ entries # <<>>

-----------------------------------------------------------------------------
(* The removal path of operator<< *)

\* The step is a call of operator<< that takes the removal path: the value
\* equals default_value and the key is present.
ShlRemovalStep ==
    /\ ShlStep
    /\ last'.second = default_value
    /\ Present(entries, last'.first)

\* e2 is e1 without its entry of rank n (0-based), all else in place.
RankRemoved(e1, e2, n) ==
    /\ Len(e2) = Len(e1) - 1
    /\ \A i \in 1 .. Len(e2) : e2[i] = e1[IF i <= n THEN i ELSE i + 1]

\* C15, as claimed: on the removal path, whenever 0 <= key <= number of
\* stored entries the position reached by advancing key steps from begin()
\* is a stored entry, which the call erases without undefined behaviour.
C15_SafeUpToSize ==
    [][ShlRemovalStep /\ 0 <= last'.first /\ last'.first <= Len(entries)
         => /\ last'.ub = "none"
            /\ RankRemoved(entries, entries', last'.first)]_vars

\* C15, amended: on the removal path the call is safe exactly when
\* 0 <= key < number of stored entries, and then erases the entry of rank
\* key; at key = number of stored entries it erases end(), and for a
\* negative or larger key the advance itself leaves [begin(), end()].
C15_SafeBelowSize ==
    [][ShlRemovalStep
         => LET k == last'.first
            IN  IF 0 <= k /\ k < Len(entries)
                THEN /\ last'.ub = "none"
                     /\ pc' = "idle"
                     /\ RankRemoved(entries, entries', k)
                ELSE last'.ub = IF k = Len(entries) THEN "erase_end"
                                ELSE "advance"]_vars

C15_Witness ==
    /\ last.op = "shl"
    /\ last.ub = "none"
    /\ last.second = default_value
    /\ last.size >= 2
    /\ last.size = Len(entries) + 1
    /\ last.first = last.size - 1

\* The keys of e are exactly its ranks 0 .. size-1.
DenseKeys(e) == KeysOf(e) = 0 .. Len(e) - 1

\* C16: when every stored key equals its zero-based rank, operator<< with
\* (key, default_value) for a present key erases exactly that key's entry
\* and leaves every other entry as it was.
C16_DenseKeysEraseOwnEntry ==
    [][ShlRemovalStep /\ DenseKeys(entries)
         => /\ last'.ub = "none"
            /\ pc' = "idle"
            /\ AsFunction(entries') = Without(entries, last'.first)]_vars

C16_Witness ==
    /\ last.op = "shl"
    /\ last.ub = "none"
    /\ last.second = default_value
    /\ last.size = 3
    /\ last.first = 1
    /\ KeysOf(entries) = {0, 2}

-----------------------------------------------------------------------------
(* Termination of operator! *)

\* One more step of the loop of operator!.
PruneLoopStep ==
    (PruneAllErase \/ PruneAllAdvance \/ PruneAllEnd) /\ UNCHANGED str

\* A call of operator! runs on: the thread inside the loop takes its next
\* step as long as there is one.
SpecLive == Spec /\ WF_vars(PruneLoopStep)

\* C17: every call of operator! returns: from any state inside its loop the
\* iterator reaches cend() and the call ends.
C17_PruneAllTerminates == (pc = "prune") ~> (pc = "idle")

C17_Witness ==
    /\ PruneDone
    /\ Len(pre) >= 3
    /\ last.erased = Len(pre)
    /\ entries = <<>>

-----------------------------------------------------------------------------
(* The scan of operator! *)

\* The step erases an entry inside the loop of operator!.
PruneEraseStep == pc = "prune" /\ pc' = "prune" /\ Len(entries') < Len(entries)

\* C18: after erasing the entry of rank r the scan resumes at rank r, which
\* is then the successor of the erased entry, or cend() when the erased
\* entry was the last; so the entries examined so far followed by the
\* entries still to scan are always the entries operator! was entered with,
\* and at its return every one of them was examined once, in key order.
C18_ScanExaminesEachOnce ==
    /\ [][PruneEraseStep
            => /\ it' = it
               /\ IF it + 1 < Len(entries)
                  THEN entries'[it' + 1] = entries[it + 2]
                  ELSE it' = Len(entries')]_vars
    /\ [](pc = "prune"
            => last.examined \o SubSeq(entries, it + 1, Len(entries)) = pre)
    /\ [](PruneDone => last.examined = pre)

C18_Witness ==
    /\ PruneDone
    /\ Len(last.examined) >= 3
    /\ last.erased >= 1
    /\ entries # <<>>
    /\ pre[Len(pre)].second = default_value

-----------------------------------------------------------------------------
(* operator<< seen through operator>> and by the other keys *)

\* C19: a pull of k right after operator<<(k, v) returns v, whether or not
\* v equals default_value.
C19_ShlThenPullReturnsValue ==
    [][pc = "idle" /\ last.op = "shl" /\ PullStep /\ last'.first = last.first
         => last'.ret = last.second]_vars

\* C20: operator<<(k, v) leaves the presence and the stored value of every
\* key other than k as they were, and changes the entry count by at most one.
C20_ShlTouchesOnlyItsKey ==
    [][ShlStep
         => /\ \A k \in Keys \ {last'.first} :
                 /\ Present(entries', k) = Present(entries, k)
                 /\ Present(entries, k) => Stored(entries', k) = Stored(entries, k)
            /\ Len(entries') - Len(entries) \in {-1, 0, 1}]_vars

-----------------------------------------------------------------------------
(* Round trips through operator>> *)

\* What operator>>(k) returns on the entries e, as a function of the key.
PulledView(e) == [k \in Keys |-> OperatorPull(e, default_value, k).ret]

\* C21: after operator()(k, v) a pull of k returns v, every other key pulls
\* the value it pulled before the call, and every key that was present is
\* still present.
C21_CallThenPullReturnsValue ==
    [][CallStep
         => LET k == last'.first
                v == last'.second
            IN  /\ OperatorPull(entries', default_value', k).ret = v
                /\ \A x \in Keys \ {k} :
                      OperatorPull(entries', default_value', x).ret
                          = OperatorPull(entries, default_value, x).ret
                /\ KeysOf(entries) \subseteq KeysOf(entries')]_vars

C21_Witness ==
    /\ last.op = "call"
    /\ pc = "idle"
    /\ Len(entries) >= 3
    /\ default_value # NullB
    /\ last.second = default_value
    /\ Present(entries, last.first)
    /\ OperatorPull(entries, default_value, last.first).ret = last.second
    /\ \E x \in Keys \ {last.first} : ~Present(entries, x)

\* C22: when operator! returns, every key, stored or not, pulls the value
\* it pulled when operator! was entered.
C22_PruneAllKeepsPulledView ==
    PruneDone => PulledView(entries) = PulledView(pre)

C22_Witness ==
    /\ PruneDone
    /\ default_value # NullB
    /\ last.erased >= 1
    /\ entries # <<>>
    /\ \E k \in Keys : Present(pre, k) /\ ~Present(entries, k)
    /\ \E k \in Keys : ~Present(pre, k)

====
